---------------------------- MODULE Spec2Model ----------------------------
(***************************************************************************)
(* A model of sample_reads.py: one run of process_file over an input file  *)
(* (format detection, the record loop with the length filter and the       *)
(* Bernoulli draw, the buffered writer, the report and the exit code), and *)
(* a second run of the same command line for the determinism property.     *)
(***************************************************************************)
EXTENDS Integers, Sequences, FiniteSets, TLC

(* ------------------------------ bounds -------------------------------- *)

\* The longest record stream an input file decodes to.
MaxRecords == 3

\* The size of the output buffer, in characters (the source's 1024*1024,
\* scaled so that a run of MaxRecords records fills it).
BufferCapacity == 16

(* --------------------------- input domains ---------------------------- *)

\* The sequence lengths the records of an input file have.
Lengths == {0, 1, 2}

\* -l / --length
MinLens == {0, 1, 2}

\* -p / --percent
Percents == {0, 50, 100, 150}

\* -s / --seed (0 means: do not seed)
Seeds == {0, 1, 2}

\* The first character of an input file: the two markers, another
\* character, and "" for the end of input (f.read(1) on an empty file).
FirstChars == {">", "@", "x", ""}

RECURSIVE Repeat(_, _)
Repeat(c, n) == IF n = 0 THEN "" ELSE Repeat(c, n - 1) \o c

\* The i-th record the decoder yields, with a sequence of n bases.  The
\* FASTA decoder yields (name, seq), the FASTQ decoder (name, seq, qual).
Record(i, n) ==
    [name |-> "r" \o ToString(i), seq |-> Repeat("A", n), qual |-> Repeat("I", n)]

RecordStreams ==
    UNION {{[i \in 1..n |-> Record(i, f[i])] : f \in [1..n -> Lengths]} : n \in 0..MaxRecords}

\* An input file: whether it can be opened, its first character, the
\* records the decoder yields from it, and whether the decoder raises on
\* the record after them (a truncated or malformed record).
InputFiles ==
    {[exists |-> FALSE, first |-> "", records |-> <<>>, malformed |-> FALSE],
     [exists |-> TRUE, first |-> "", records |-> <<>>, malformed |-> FALSE]}
    \cup {[exists |-> TRUE, first |-> c, records |-> rs, malformed |-> m] :
            c \in FirstChars \ {""}, rs \in RecordStreams, m \in BOOLEAN}

\* The command line: parse_args' namespace.  output is the state of the
\* output path: whether open(args.output, "w") succeeds.
Args ==
    [input : InputFiles, writable : BOOLEAN, percent : Percents,
     length : MinLens, seed : Seeds]

(* ----------------------- the random generator ------------------------- *)

\* The values random.random() returns, as numerators over RngModulus: the
\* draws of [0, 1) by the quarter they fall in.
DrawValues == 0..3

RngModulus == Cardinality(DrawValues)

\* The first draws of random.random() after random.seed(1) and after
\* random.seed(2), by quarter: 0.134, 0.847, 0.764, 0.255, 0.495, 0.449,
\* 0.652, 0.789 and 0.956, 0.948, 0.057, 0.085, 0.835, 0.736, 0.670, 0.308.
SeedStream(s) ==
    IF s = 1 THEN <<0, 3, 3, 1, 1, 1, 2, 3>> ELSE <<3, 3, 0, 0, 3, 2, 2, 1>>

\* The state of the process-wide generator: the seed that set it (0: the
\* operating system's entropy, at `import random`) and the draws made since.
\* random.seed(s): the state a seed sets.
SeedState(s) == [seed |-> s, n |-> 0]

\* The state `import random` leaves: seeded from entropy, so that each draw
\* may be any value.
Entropy == [seed |-> 0, n |-> 0]

\* A draw from (0, 1] instead of [0, 1): it can return 1.0.
RandomValuesClosedAbove(state) ==
    IF state.seed = 0 THEN {v + 1 : v \in DrawValues}
    ELSE {SeedStream(state.seed)[state.n + 1] + 1}

\* The values random.random() may return in a state: the next draw of the
\* seed's stream, or any value when the state came from entropy.
RandomValues(state) ==
    IF state.seed = 0 THEN DrawValues
    ELSE {SeedStream(state.seed)[state.n + 1]}

\* The state random.random() leaves.
RngAdvance(state) == [state EXCEPT !.n = state.n + 1]

\* The generator never seeded: its state is the entropy's, whatever the seed.
SeededIgnoringSeed(seed) == {Entropy}

\* Lines 59-60: the generator's state when the loop starts.  A non-zero
\* seed sets it; with seed 0 it is the state `import random` left.
SeededRng(seed) == IF seed # 0 THEN {SeedState(seed)} ELSE {Entropy}

\* The number of random.seed calls process_file makes.
SeedCalls(seed) == IF seed # 0 THEN 1 ELSE 0


(* ------------------------------- state -------------------------------- *)

VARIABLES
    args,                  \* the command line (constant over a run)
    disk,                  \* the content of the file at args.output
    pc,                    \* Start, FormatDetected, Streaming, Reported, Failed
    filetype,              \* detect_format's result, "" before it
    pos,                   \* the records the reader has yielded
    total_reads,
    passed_length_filter,
    retained_reads,
    rng,                   \* the state of the process-wide generator
    fout,                  \* the output stream: its state and its buffer
    opens,                 \* how often the run opened the output
    closes,                \* how often the run closed the output
    stdout,                \* the reports printed
    stderr,                \* the error messages printed
    exit_code,             \* <<>> while the process runs, then <<code>>
    rng0,                  \* history: the generator's state when the loop starts
    seed_calls,            \* history: the random.seed calls made
    draws,                 \* history: the values random.random() returned, in order
    draw_log,              \* history: per record read, <<>> or <<its draw>>
    run,                   \* which run of the command line this is
    prev                   \* the outcome of the run before, <<>> for the first

vars ==
    <<args, disk, pc, filetype, pos, total_reads, passed_length_filter,
      retained_reads, rng, fout, opens, closes, stdout, stderr, exit_code,
      rng0, seed_calls, draws, draw_log, run, prev>>

\* The content the output path may hold before the first run.
InitialDisks == {"", "stale\n"}

\* Lines 59-67 in a fresh process: the generator seeded (or not), the
\* probability and the threshold read, the three counters zeroed, nothing
\* opened or printed yet.
ProcessStart(seed, state) ==
    [pc |-> "Start", filetype |-> "", pos |-> 0,
     total_reads |-> 0, passed_length_filter |-> 0, retained_reads |-> 0,
     rng |-> state, rng0 |-> state, seed_calls |-> SeedCalls(seed),
     fout |-> [state |-> "unopened", buf |-> ""], opens |-> 0, closes |-> 0,
     stdout |-> <<>>, stderr |-> <<>>, exit_code |-> <<>>,
     draws |-> <<>>, draw_log |-> <<>>]

Init ==
    /\ args \in Args
    /\ disk \in InitialDisks
    /\ run = 1
    /\ prev = <<>>
    /\ \E state \in SeededRng(args.seed) :
         LET p == ProcessStart(args.seed, state)
         IN  /\ pc = p.pc
             /\ filetype = p.filetype
             /\ pos = p.pos
             /\ total_reads = p.total_reads
             /\ passed_length_filter = p.passed_length_filter
             /\ retained_reads = p.retained_reads
             /\ rng = p.rng
             /\ rng0 = p.rng0
             /\ seed_calls = p.seed_calls
             /\ fout = p.fout
             /\ opens = p.opens
             /\ closes = p.closes
             /\ stdout = p.stdout
             /\ stderr = p.stderr
             /\ exit_code = p.exit_code
             /\ draws = p.draws
             /\ draw_log = p.draw_log

(* ------------------------------ helpers ------------------------------- *)

\* The comparison of line 87 written r <= probability.
BelowProbabilityOrEqual(r, percent) == r * 100 <= percent * RngModulus

\* Lines 62, 87 and 99: r < probability.  The probability is percent / 100
\* and a draw is a numerator over RngModulus, so the comparison is
\* r * 100 < percent * RngModulus.
BelowProbability(r, percent) == r * 100 < percent * RngModulus

\* The comparison of line 84 written len(seq) > min_len.
LongerThan(seq, min_len) == Len(seq) > min_len

\* Lines 84 and 96: len(seq) >= min_len.
PassesLength(seq, min_len) == Len(seq) >= min_len

\* detect_format with its else branch returning "fasta" for every
\* character that is not "@", raising only at the end of input.
DetectDefaultingToFasta(first_char) ==
    IF first_char = "@" THEN "fastq"
    ELSE IF first_char = "" THEN ""
    ELSE "fasta"

\* Lines 49-54: the format of a first character, "" when it is no marker
\* (detect_format raises).
DetectedFormat(first_char) ==
    IF first_char = ">" THEN "fasta"
    ELSE IF first_char = "@" THEN "fastq"
    ELSE ""

\* Lines 88 and 100: the text written for a retained record.
FastqText(rec) == "@" \o rec.name \o "\n" \o rec.seq \o "\n+\n" \o rec.qual \o "\n"

FastaText(rec) == ">" \o rec.name \o "\n" \o rec.seq \o "\n"

\* Line 110: filetype.upper().
Upper(ft) == IF ft = "fastq" THEN "FASTQ" ELSE "FASTA"

\* Lines 108-118: the report.  The ratio line is printed when a record was
\* read (line 115); its text, the rendering to two decimals of the double
\* (retained_reads / total_reads) * 100, is not part of the model.
Report ==
    [input_type |-> Upper(filetype),
     total |-> total_reads,
     min_len |-> args.length,
     passed |-> passed_length_filter,
     percent |-> args.percent,
     retained |-> retained_reads,
     ratio_line |-> total_reads > 0]

\* The handler printing the error and exiting with code 0.
FailExitingZero(message) ==
    /\ stderr' = Append(stderr, "Error: " \o message)
    /\ exit_code' = <<0>>
    /\ pc' = "Failed"

\* Lines 103-105: the handler of every exception of the try block.
Fail(message) ==
    /\ stderr' = Append(stderr, "Error: " \o message)
    /\ exit_code' = <<1>>
    /\ pc' = "Failed"

\* fout.write on the buffered stream of line 77: the text stays in the
\* buffer until the buffer would overflow, and the buffer then goes to disk.
Write(text) ==
    IF Len(fout.buf) + Len(text) > BufferCapacity
    THEN /\ disk' = disk \o fout.buf
         /\ fout' = [fout EXCEPT !.buf = text]
    ELSE /\ disk' = disk
         /\ fout' = [fout EXCEPT !.buf = fout.buf \o text]

\* The stream dropped without a flush: what is still buffered is lost.
CloseWithoutFlush ==
    /\ disk' = disk
    /\ fout' = [state |-> "closed", buf |-> ""]
    /\ closes' = closes + 1

\* The end of the with block of line 77, on a normal exit and on an
\* exception alike: the buffer is flushed and the stream closed.
Close ==
    /\ disk' = disk \o fout.buf
    /\ fout' = [state |-> "closed", buf |-> ""]
    /\ closes' = closes + 1

(* ------------------------------ actions ------------------------------- *)

\* The output opened before the format is detected: a failed detection
\* leaves the output truncated.
DetectFormatAfterOpen ==
    /\ pc = "Start"
    /\ IF ~args.input.exists
       THEN /\ Fail("No such file or directory")
            /\ UNCHANGED filetype
       ELSE IF DetectedFormat(args.input.first) = ""
       THEN /\ Fail("Cannot detect file format (not FASTA/FASTQ)")
            /\ UNCHANGED filetype
       ELSE /\ filetype' = DetectedFormat(args.input.first)
            /\ pc' = "FormatDetected"
            /\ UNCHANGED <<stderr, exit_code>>
    /\ disk' = IF args.writable THEN "" ELSE disk
    /\ UNCHANGED <<args, pos, total_reads, passed_length_filter,
                   retained_reads, rng, fout, opens, closes, stdout,
                   rng0, seed_calls, draws, draw_log, run, prev>>

\* Line 70, detect_format (lines 37-54): the input is opened, its first
\* character read and classified.  A missing input or a first character
\* that is no marker raises, and the handler of line 103 ends the run.
DetectFormat ==
    /\ pc = "Start"
    /\ IF ~args.input.exists
       THEN /\ Fail("No such file or directory")
            /\ UNCHANGED filetype
       ELSE IF DetectedFormat(args.input.first) = ""
       THEN /\ Fail("Cannot detect file format (not FASTA/FASTQ)")
            /\ UNCHANGED filetype
       ELSE /\ filetype' = DetectedFormat(args.input.first)
            /\ pc' = "FormatDetected"
            /\ UNCHANGED <<stderr, exit_code>>
    /\ UNCHANGED <<args, disk, pos, total_reads, passed_length_filter,
                   retained_reads, rng, fout, opens, closes, stdout,
                   rng0, seed_calls, draws, draw_log, run, prev>>

\* Lines 72-77: the reader of the detected format is built and the output
\* is opened for writing, which truncates it.
OpenOutput ==
    /\ pc = "FormatDetected"
    /\ args.writable
    /\ disk' = ""
    /\ fout' = [state |-> "open", buf |-> ""]
    /\ opens' = opens + 1
    /\ pc' = "Streaming"
    /\ UNCHANGED <<args, filetype, pos, total_reads, passed_length_filter,
                   retained_reads, rng, closes, stdout, stderr, exit_code,
                   rng0, seed_calls, draws, draw_log, run, prev>>

\* Line 77 when the output cannot be opened: open raises, nothing is
\* truncated, and the handler of line 103 ends the run.
OpenOutputFails ==
    /\ pc = "FormatDetected"
    /\ ~args.writable
    /\ Fail("Permission denied")
    /\ UNCHANGED <<args, disk, filetype, pos, total_reads,
                   passed_length_filter, retained_reads, rng, fout, opens,
                   closes, stdout, rng0, seed_calls, draws, draw_log, run, prev>>

\* The loop body with total_reads incremented after the length check:
\* only the records that pass are counted.
ProcessRecordCountingAfterFilter(rec, text) ==
    /\ pos' = pos + 1
    /\ IF PassesLength(rec.seq, args.length)
       THEN /\ total_reads' = total_reads + 1
            /\ passed_length_filter' = passed_length_filter + 1
            /\ rng' = RngAdvance(rng)
            /\ \E r \in RandomValues(rng) :
                 /\ draws' = Append(draws, r)
                 /\ draw_log' = Append(draw_log, <<r>>)
                 /\ IF BelowProbability(r, args.percent)
                    THEN /\ Write(text)
                         /\ retained_reads' = retained_reads + 1
                    ELSE UNCHANGED <<disk, fout, retained_reads>>
       ELSE /\ draw_log' = Append(draw_log, <<>>)
            /\ UNCHANGED <<total_reads, passed_length_filter, rng, draws,
                           disk, fout, retained_reads>>
    /\ UNCHANGED <<args, pc, filetype, opens, closes, stdout, stderr,
                   exit_code, rng0, seed_calls, run, prev>>

\* The loop body with the draw made before the length check: every record
\* consumes a draw.
ProcessRecordDrawingFirst(rec, text) ==
    /\ pos' = pos + 1
    /\ total_reads' = total_reads + 1
    /\ rng' = RngAdvance(rng)
    /\ \E r \in RandomValues(rng) :
         /\ draws' = Append(draws, r)
         /\ IF PassesLength(rec.seq, args.length)
            THEN /\ passed_length_filter' = passed_length_filter + 1
                 /\ draw_log' = Append(draw_log, <<r>>)
                 /\ IF BelowProbability(r, args.percent)
                    THEN /\ Write(text)
                         /\ retained_reads' = retained_reads + 1
                    ELSE UNCHANGED <<disk, fout, retained_reads>>
            ELSE /\ draw_log' = Append(draw_log, <<>>)
                 /\ UNCHANGED <<passed_length_filter, disk, fout, retained_reads>>
    /\ UNCHANGED <<args, pc, filetype, opens, closes, stdout, stderr,
                   exit_code, rng0, seed_calls, run, prev>>

\* One pass of a loop body (lines 82-89, lines 94-101) over the record the
\* reader yields, written as `text` when it is retained.
ProcessRecord(rec, text) ==
    /\ pos' = pos + 1
    /\ total_reads' = total_reads + 1
    /\ IF PassesLength(rec.seq, args.length)
       THEN /\ passed_length_filter' = passed_length_filter + 1
            /\ rng' = RngAdvance(rng)
            /\ \E r \in RandomValues(rng) :
                 /\ draws' = Append(draws, r)
                 /\ draw_log' = Append(draw_log, <<r>>)
                 /\ IF BelowProbability(r, args.percent)
                    THEN /\ Write(text)
                         /\ retained_reads' = retained_reads + 1
                    ELSE UNCHANGED <<disk, fout, retained_reads>>
       ELSE /\ draw_log' = Append(draw_log, <<>>)
            /\ UNCHANGED <<passed_length_filter, rng, draws, disk, fout,
                           retained_reads>>
    /\ UNCHANGED <<args, pc, filetype, opens, closes, stdout, stderr,
                   exit_code, rng0, seed_calls, run, prev>>

\* Lines 81-89: the FASTQ loop.
ProcessFastqRecord ==
    /\ pc = "Streaming"
    /\ filetype = "fastq"
    /\ pos < Len(args.input.records)
    /\ ProcessRecord(args.input.records[pos + 1],
                     FastqText(args.input.records[pos + 1]))

\* Lines 93-101: the FASTA loop.
ProcessFastaRecord ==
    /\ pc = "Streaming"
    /\ filetype # "fastq"
    /\ pos < Len(args.input.records)
    /\ ProcessRecord(args.input.records[pos + 1],
                     FastaText(args.input.records[pos + 1]))

\* Lines 81 and 93 when the reader raises on the next record: the with
\* block of line 77 closes the output and the handler of line 103 ends the
\* run.
ParseError ==
    /\ pc = "Streaming"
    /\ pos = Len(args.input.records)
    /\ args.input.malformed
    /\ Close
    /\ Fail("malformed record")
    /\ UNCHANGED <<args, filetype, pos, total_reads, passed_length_filter,
                   retained_reads, rng, opens, stdout, rng0, seed_calls,
                   draws, draw_log, run, prev>>

\* Lines 81 and 93 at the end of the stream, then lines 108-118: the with
\* block closes the output, the report is printed, the process exits 0.
Finish ==
    /\ pc = "Streaming"
    /\ pos = Len(args.input.records)
    /\ ~args.input.malformed
    /\ Close
    /\ stdout' = Append(stdout, Report)
    /\ exit_code' = <<0>>
    /\ pc' = "Reported"
    /\ UNCHANGED <<args, filetype, pos, total_reads, passed_length_filter,
                   retained_reads, rng, opens, stderr, rng0, seed_calls,
                   draws, draw_log, run, prev>>

\* The outcome of a run that has ended.
Outcome ==
    [disk |-> disk, pc |-> pc, total |-> total_reads,
     passed |-> passed_length_filter, retained |-> retained_reads,
     exit_code |-> exit_code]

\* Lines 121-123 once more: the same command line run again, in a fresh
\* process, over the same input and the output file the first run left.
Rerun ==
    /\ run = 1
    /\ pc \in {"Reported", "Failed"}
    /\ run' = 2
    /\ prev' = <<Outcome>>
    /\ UNCHANGED <<args, disk>>
    /\ \E state \in SeededRng(args.seed) :
         LET p == ProcessStart(args.seed, state)
         IN  /\ pc' = p.pc
             /\ filetype' = p.filetype
             /\ pos' = p.pos
             /\ total_reads' = p.total_reads
             /\ passed_length_filter' = p.passed_length_filter
             /\ retained_reads' = p.retained_reads
             /\ rng' = p.rng
             /\ rng0' = p.rng0
             /\ seed_calls' = p.seed_calls
             /\ fout' = p.fout
             /\ opens' = p.opens
             /\ closes' = p.closes
             /\ stdout' = p.stdout
             /\ stderr' = p.stderr
             /\ exit_code' = p.exit_code
             /\ draws' = p.draws
             /\ draw_log' = p.draw_log

Next ==
    \/ DetectFormat
    \/ OpenOutput
    \/ OpenOutputFails
    \/ ProcessFastqRecord
    \/ ProcessFastaRecord
    \/ ParseError
    \/ Finish

\* One run of the command line.
Spec == Init /\ [][Next]_vars

\* One run, which takes its next step as long as it has one: the process
\* is a single thread that nothing suspends.
FairSpec == Init /\ [][Next]_vars /\ WF_vars(Next)

NextOrRerun == Next \/ Rerun

\* Two runs of the same command line, one after the other.
TwoRunSpec == Init /\ [][NextOrRerun]_vars

(* ---------------------- vocabulary of the claims ----------------------- *)

Records == args.input.records

Terminal == pc \in {"Reported", "Failed"}

\* The text this run has written to its output so far, buffered or on disk.
Written == IF fout.state = "unopened" THEN "" ELSE disk \o fout.buf

\* The text of a record in the format of the run.
RecordText(rec) == IF filetype = "fastq" THEN FastqText(rec) ELSE FastaText(rec)

\* The texts of the records i <= n with keep[i], in input order.
RECURSIVE TextOfKept(_, _)
TextOfKept(n, keep) ==
    IF n = 0 THEN ""
    ELSE TextOfKept(n - 1, keep) \o (IF keep[n] THEN RecordText(Records[n]) ELSE "")

\* How many of the first n records are at least min_len long.
RECURSIVE LongEnough(_)
LongEnough(n) ==
    IF n = 0 THEN 0
    ELSE LongEnough(n - 1) + (IF Len(Records[n].seq) >= args.length THEN 1 ELSE 0)

\* Whether record i was drawn for and its draw r satisfied r < percent / 100.
DrawSucceeded(i) ==
    /\ draw_log[i] # <<>>
    /\ draw_log[i][1] * 100 < args.percent * RngModulus

(* ------------------------------- claims ------------------------------- *)

\* C1: a record is in the output iff length(sequence) >= min_len (a length
\* equal to min_len passes) and its draw r satisfied r < probability: the
\* records read are drawn for exactly when they are long enough, and the
\* text written is that of the long-enough records whose draw succeeded,
\* so no record shorter than min_len is written whatever the probability.
C1_RetainedIffLongEnoughAndDrawn ==
    /\ Len(draw_log) = pos
    /\ \A i \in 1..pos :
         (draw_log[i] # <<>>) <=> (Len(Records[i].seq) >= args.length)
    /\ Written =
         TextOfKept(pos, [i \in 1..pos |->
             Len(Records[i].seq) >= args.length /\ DrawSucceeded(i)])
    /\ pc = "Reported" => disk = Written

\* A finished run that kept a record exactly min_len long, dropped a
\* shorter one, and dropped a long-enough one by its draw.
C1_Witness ==
    /\ pc = "Reported"
    /\ \E i \in 1..pos :
         Len(Records[i].seq) = args.length /\ args.length > 0 /\ DrawSucceeded(i)
    /\ \E i \in 1..pos : Len(Records[i].seq) < args.length
    /\ \E i \in 1..pos : draw_log[i] # <<>> /\ ~DrawSucceeded(i)

\* C2: in every state, also at a failure, total_reads >=
\* passed_length_filter >= retained_reads >= 0; the counters start at
\* zero and never decrease; total_reads grows by exactly one with every
\* record the reader yields, whatever becomes of the record.
C2_CountersOrderedAndMonotone ==
    /\ [](/\ total_reads >= passed_length_filter
          /\ passed_length_filter >= retained_reads
          /\ retained_reads >= 0
          /\ total_reads = pos
          /\ pc \in {"Start", "FormatDetected"} =>
               total_reads = 0 /\ passed_length_filter = 0 /\ retained_reads = 0)
    /\ [][/\ total_reads' >= total_reads
          /\ passed_length_filter' >= passed_length_filter
          /\ retained_reads' >= retained_reads
          /\ total_reads' - total_reads = pos' - pos
          /\ pos' - pos \in {0, 1}]_vars

\* A run that failed after records of all three outcomes.
C2_Witness ==
    /\ pc = "Failed"
    /\ total_reads > passed_length_filter
    /\ passed_length_filter > retained_reads
    /\ retained_reads > 0

\* C3: with probability >= 1 a successful run retains every long-enough
\* record, so the output is the long-enough records in input order; with
\* min_len = 0 besides, retained_reads = total_reads =
\* passed_length_filter and the output is every input record in order.
C3_EverythingKeptAtProbabilityOne ==
    (pc = "Reported" /\ args.percent >= 100) =>
        /\ total_reads = Len(Records)
        /\ passed_length_filter = LongEnough(Len(Records))
        /\ retained_reads = passed_length_filter
        /\ disk = TextOfKept(Len(Records), [i \in 1..Len(Records) |->
                      Len(Records[i].seq) >= args.length])
        /\ args.length = 0 =>
             /\ retained_reads = total_reads
             /\ disk = TextOfKept(Len(Records), [i \in 1..Len(Records) |-> TRUE])

\* The spec's scenario, scaled: lengths [short, long, long], min_len =
\* long, probability 1.0: 3 read, 2 pass, 2 retained.
C3_Witness ==
    /\ pc = "Reported"
    /\ args.percent = 100
    /\ Len(Records) = 3
    /\ Len(Records[1].seq) < args.length
    /\ Len(Records[2].seq) = args.length
    /\ Len(Records[3].seq) > args.length
    /\ total_reads = 3
    /\ passed_length_filter = 2
    /\ retained_reads = 2
    /\ disk = RecordText(Records[2]) \o RecordText(Records[3])

\* C4: with probability 0.0 retained_reads is 0 in every state and nothing
\* is written, while total_reads and passed_length_filter count the
\* records read and those that pass the length filter.
C4_NothingKeptAtProbabilityZero ==
    args.percent = 0 =>
        /\ retained_reads = 0
        /\ Written = ""
        /\ fout.state # "unopened" => disk = ""
        /\ total_reads = pos
        /\ passed_length_filter = LongEnough(pos)

\* A finished run at probability 0 with a record that passed the length
\* filter, one that did not, and a draw of exactly 0.0.
C4_Witness ==
    /\ args.percent = 0
    /\ pc = "Reported"
    /\ passed_length_filter > 0
    /\ total_reads > passed_length_filter
    /\ \E j \in 1..Len(draws) : draws[j] = 0

\* C5: two runs with the same non-zero seed, the same input and the same
\* min_len and percent end with the same output file, byte for byte, the
\* same counters and the same exit; the generator is seeded once, at the
\* start of the run, and only when the seed is non-zero.
C5_SameSeedSameOutput ==
    /\ seed_calls = IF args.seed # 0 THEN 1 ELSE 0
    /\ seed_calls <= 1
    /\ (run = 2 /\ Terminal /\ args.seed # 0) => prev = <<Outcome>>

\* A second run with a non-zero seed that has finished, having kept some
\* of the long-enough records and dropped others by their draws.
C5_Witness ==
    /\ run = 2
    /\ pc = "Reported"
    /\ args.seed # 0
    /\ retained_reads > 0
    /\ passed_length_filter > retained_reads
    /\ prev[1].disk = disk
    /\ disk # ""

\* The text of the first n records whose draw succeeded, FASTA as ">" name,
\* sequence and FASTQ as "@" name, sequence, "+", quality, a line each.
RECURSIVE C6_Text(_, _)
C6_Text(n, fastq) ==
    IF n = 0 THEN ""
    ELSE C6_Text(n - 1, fastq) \o
         (IF ~DrawSucceeded(n) THEN ""
          ELSE IF fastq
          THEN "@" \o Records[n].name \o "\n" \o Records[n].seq \o "\n"
               \o "+" \o "\n" \o Records[n].qual \o "\n"
          ELSE ">" \o Records[n].name \o "\n" \o Records[n].seq \o "\n")

\* C6: the format depends on the first character of the input alone: ">"
\* is FASTA, "@" is FASTQ, and any other first character, the end of an
\* empty input included, fails the run with the detection error; the
\* format is fixed for the run and decides the text written for a record.
C6_FormatFromFirstCharacter ==
    /\ [](/\ pc = "Start" => filetype = ""
          /\ (pc # "Start" /\ args.input.exists) =>
               IF args.input.first = ">" THEN filetype = "fasta"
               ELSE IF args.input.first = "@" THEN filetype = "fastq"
               ELSE /\ pc = "Failed"
                    /\ filetype = ""
                    /\ stderr = <<"Error: Cannot detect file format (not FASTA/FASTQ)">>
          /\ filetype = "fasta" => Written = C6_Text(pos, FALSE)
          /\ filetype = "fastq" => Written = C6_Text(pos, TRUE))
    /\ [][pc # "Start" => filetype' = filetype]_vars

\* A finished FASTQ run that wrote a record with a non-empty sequence.
C6_Witness ==
    /\ pc = "Reported"
    /\ args.input.first = "@"
    /\ filetype = "fastq"
    /\ \E i \in 1..pos : DrawSucceeded(i) /\ Len(Records[i].seq) > 0
    /\ disk # ""

\* The input is there and its first character is no marker.
C7_Undetectable == args.input.exists /\ args.input.first \notin {">", "@"}

\* C7: when format detection fails (an empty input, or a first character
\* that is neither ">" nor "@") the run fails with a non-zero exit, no
\* record is processed, the counters stay 0, no report is printed, and the
\* output is never opened or written: its content stays what it was.
C7_DetectionFailureTouchesNothing ==
    /\ []((C7_Undetectable /\ pc # "Start") =>
            /\ pc = "Failed"
            /\ exit_code = <<1>>
            /\ pos = 0
            /\ total_reads = 0
            /\ passed_length_filter = 0
            /\ retained_reads = 0
            /\ stdout = <<>>
            /\ opens = 0
            /\ closes = 0
            /\ fout = [state |-> "unopened", buf |-> ""])
    /\ [][C7_Undetectable => disk' = disk]_vars

\* A run over an empty input has failed, and the output path still holds
\* what it held before, on a path the run could have written.
C7_Witness ==
    /\ args.input.exists
    /\ args.input.first = ""
    /\ args.writable
    /\ pc = "Failed"
    /\ disk = "stale\n"

\* The steps of the run's state machine.
C8_Step ==
    \/ pc = "Start" /\ pc' \in {"FormatDetected", "Failed"} /\ pos' = pos
    \/ pc = "FormatDetected" /\ pc' \in {"Streaming", "Failed"} /\ pos' = pos
    \/ pc = "Streaming" /\ pc' = "Streaming" /\ pos' = pos + 1
    \/ pc = "Streaming" /\ pc' \in {"Reported", "Failed"} /\ pos' = pos

\* C8: a run goes Start -> FormatDetected -> Streaming -> Reported, or from
\* Start, FormatDetected or Streaming to Failed; Streaming is re-entered
\* once per record; Reported and Failed are terminal; the report is printed
\* exactly when the run is Reported, which exits 0; a Failed run exits
\* non-zero with an error message and no report; every run ends in one of
\* the two.
C8_RunStateMachine ==
    /\ [][C8_Step]_vars
    /\ [](/\ pc \in {"Start", "FormatDetected", "Streaming", "Reported", "Failed"}
          /\ pc = "Reported" <=> stdout # <<>>
          /\ pc = "Reported" <=> exit_code = <<0>>
          /\ pc = "Failed" <=> (exit_code # <<>> /\ exit_code # <<0>>)
          /\ pc = "Failed" <=> stderr # <<>>
          /\ Len(stdout) <= 1
          /\ ~Terminal <=> exit_code = <<>>)
    /\ <>Terminal

\* A run reported after three passes of the loop.
C8_Witness ==
    /\ pc = "Reported"
    /\ pos = 3
    /\ stdout = <<Report>>
    /\ exit_code = <<0>>

\* C9: when the reader fails after k records, the run stops there: no
\* later record is read, the output holds exactly the complete texts of
\* the records retained among the first k, and the output, once opened, is
\* flushed and closed exactly once before the process exits, on the
\* failure path as on the success path.
C9_FailureKeepsWhatWasWritten ==
    /\ [](/\ closes <= opens
          /\ opens <= 1
          /\ exit_code # <<>> => (closes = opens /\ fout.state # "open")
          /\ (Terminal /\ opens = 1) =>
               /\ fout = [state |-> "closed", buf |-> ""]
               /\ Len(draw_log) = pos
               /\ disk = TextOfKept(pos, [i \in 1..pos |-> DrawSucceeded(i)]))
    /\ [][pc = "Failed" => UNCHANGED <<pos, total_reads, disk, closes, rng>>]_vars

\* The reader failed after three records, some retained and some not, and
\* the retained ones are on disk.
C9_Witness ==
    /\ pc = "Failed"
    /\ args.input.malformed
    /\ pos = 3
    /\ retained_reads = 2
    /\ opens = 1
    /\ closes = 1
    /\ disk # ""

RECURSIVE RngAfter(_, _)
RngAfter(state, n) == IF n = 0 THEN state ELSE RngAdvance(RngAfter(state, n - 1))

RECURSIVE Flatten(_)
Flatten(log) == IF log = <<>> THEN <<>> ELSE Head(log) \o Flatten(Tail(log))

\* C10: the generator advances by one draw for each record that passes the
\* length filter and by none for a record that fails it, so the draws
\* consumed number passed_length_filter at every point; the i-th
\* long-enough record is decided by the i-th draw; and the output is a
\* subsequence of the input, in input order.
C10_OneDrawPerPassingRecord ==
    /\ Len(draws) = passed_length_filter
    /\ passed_length_filter = LongEnough(pos)
    /\ rng = RngAfter(rng0, passed_length_filter)
    /\ \A j \in 1..Len(draws) : draws[j] \in RandomValues(RngAfter(rng0, j - 1))
    /\ Flatten(draw_log) = draws
    /\ \A i \in 1..pos :
         IF Len(Records[i].seq) >= args.length
         THEN draw_log[i] = <<draws[LongEnough(i)]>>
         ELSE draw_log[i] = <<>>
    /\ \E keep \in [1..pos -> BOOLEAN] : Written = TextOfKept(pos, keep)

\* A run that read a short record between two long-enough ones, and kept
\* the second of these but not the first.
C10_Witness ==
    /\ pos = 3
    /\ Len(draws) = 2
    /\ draw_log[2] = <<>>
    /\ ~DrawSucceeded(1)
    /\ DrawSucceeded(3)
    /\ Written = RecordText(Records[3])

=============================================================================
